---- MODULE Spec2Model ----
(***************************************************************************)
(* Incremental polling connectors of usp-adapters: the Abnormal Security   *)
(* adapter (src/abnormal_security/client.go) and the Darktrace adapter     *)
(* (src/unnamed/part_000).  One adapter instance is modelled: its          *)
(* background task fetchEvents (scheduler loop, page walker getEvents,     *)
(* HTTP executor doWithRetry, delivery submitEvents) and Close.            *)
(*                                                                         *)
(* Time is counted in whole seconds.  Darktrace keeps milliseconds; every  *)
(* Darktrace quantity is a whole number of seconds scaled by 1000, so the  *)
(* scale drops out of every comparison.  The wall clock is read at tick    *)
(* granularity.                                                            *)
(***************************************************************************)
EXTENDS Integers, Sequences, FiniteSets, TLC

VARIABLES
    adapter,        \* "abnormal" or "darktrace": which adapter this instance is
    vendor,         \* per source: how the vendor's list endpoint behaves
    catalogue,      \* per source: the events the vendor has to report
    now,            \* wall clock (seconds)
    cycles,         \* ticks delivered by the ticker so far
    since,          \* fetchEvents' since map: source key -> watermark
    dedupe,         \* per source: identifier -> admission timestamp
    nextPageNumber, \* per source: NextPageNumber of the shared responseType
    pc,             \* position of the background task
    cur,            \* index in apis of the source being walked
    walk,           \* locals of the running getEvents call
    call,           \* locals of the running doWithRetry call
    allItems,       \* fetchEvents' batch of the cycle
    detailItems,    \* items whose detail fetch is still to do
    idx,            \* index of the event submitEvents is at
    ctxDone,        \* the lifetime context is cancelled
    onceDone,       \* a.once has run
    onceBy,         \* the caller of Close that is running a.once's function
    chStopped,      \* chStopped is closed
    sink,           \* what uspClient answers to Drain and to Close
    closing,        \* per caller of Close: where it is in Close, and err1, err2
    closeLog,       \* the steps of the shutdown sequence performed so far
    exitLogged,     \* the "events exiting" debug line was written
    handed,         \* per source: identifiers of events handed to submitEvents
    live,           \* per source: identifier -> admissions while in the cache
    cycleRes,       \* per source: result of its walk in the current cycle
    lastWalk,       \* arguments and results of the getEvents call that returned
                    \* in the background task's latest step (NoLastWalk: none did)
    lastCall,       \* the same for doWithRetry
    lastShip,       \* the Ship call made in the background task's latest step
    ticks,          \* the ticks the ticker delivers in this run
    admissions      \* per source: (identifier, occurrence-time) -> how many
                    \* walks that returned without error had admitted it

vars == << adapter, vendor, catalogue, now, cycles, since, dedupe, nextPageNumber, pc, cur,
           walk, call, allItems, detailItems, idx, ctxDone, onceDone, chStopped,
           exitLogged, handed, live, cycleRes, lastWalk, lastCall, onceBy, sink,
           closing, closeLog, lastShip, ticks, admissions >>

-----------------------------------------------------------------------------
(* Bounds of the model.                                                    *)

\* ticks the ticker delivers
MaxCycles == 2
\* ticks the ticker delivers in the runs that follow an identifier past its
\* pruning
PruningCycles == 3
\* ticks the ticker delivers in the runs that follow Close
ShutdownCycles == 1
\* events in one response page: Abnormal's walks have several pages,
\* Darktrace's have one
AbnormalPageLen == 1
DarktracePageLen == 2
\* highest page number a walk requests
MaxPage == 3
\* the attempts counter of a doWithRetry call saturates here
MaxAttempts == 2
\* the seconds a Retry-After header names, and how far ahead its date lies
RetryAfterSeconds == 5
RetryAfterDelta == 30

(* Program constants.                                                      *)

\* const queryInterval (seconds)
queryInterval == 60
\* the grace period of Darktrace's pruning pass: 1 * time.Minute, in seconds
graceSeconds == 60
\* the look-back of Abnormal's initial watermark, in multiples of queryInterval
abnormalLookback == 1

\* the sleep after a 429 that names no delay: 60 * time.Second
defaultBackoff == 60
\* the waits of submitEvents' two Ship calls: 10 * time.Second, 1 * time.Hour
shipTimeout == 10
retryTimeout == 3600

StatusOK == 200
StatusUnauthorized == 401
StatusTooManyRequests == 429
StatusServerError == 500
\* no response at all: httpClient.Do or io.ReadAll returned an error
TransportError == 0

Max(a, b) == IF a >= b THEN a ELSE b
Min(a, b) == IF a <= b THEN a ELSE b

\* the wall clock when NewAbnormalSecurityAdapter / NewDarkTraceAdapter runs
StartTime == abnormalLookback * queryInterval

-----------------------------------------------------------------------------
(* Source descriptors.                                                     *)

Adapters == {"abnormal", "darktrace"}

\* The apis slice, in the order fetchEvents walks it.  Of Abnormal's six
\* entries the model keeps abuseCampaigns (identifier field, detailFn, default
\* parameters: cases, threats and vendorCases are configured the same way) and
\* auditLogs (no identifier field, no detailFn).
Apis(ad) ==
    IF ad = "abnormal" THEN << "abuseCampaigns", "auditLogs" >>
                       ELSE << "aiAnalyst", "modelBreaches" >>

Keys(ad) == { Apis(ad)[i] : i \in 1..Len(Apis(ad)) }

\* api.detailFn != nil
HasDetailFn(key) == key = "abuseCampaigns"

\* api.idField
IdField(key) ==
    CASE key = "abuseCampaigns" -> "campaignId"
      [] key = "auditLogs"      -> ""
      [] OTHER                  -> "id"

\* since as fetchEvents first builds it
InitialSince(ad, t) ==
    IF ad = "abnormal" THEN [k \in Keys(ad) |-> t - abnormalLookback * queryInterval]
                       ELSE [k \in Keys(ad) |-> t]

-----------------------------------------------------------------------------
(* Events.  An event is what the walker reads of a vendor object: the      *)
(* value under api.idField (idk: "str" a string, "empty" the string "",    *)
(* "absent" no such key or not a string) and the value under api.timeField *)
(* (tk: "ok" a string in the source's time format, "bad" an unparseable    *)
(* string, "nonstr" not a string, "detail" a detail-fetch object).  src    *)
(* tags the source it came from.                                           *)

\* The occurrence-times vendors report: the first watermark of the adapter
\* (Abnormal's is StartTime - queryInterval, Darktrace's StartTime), one
\* interval after it, and a later one (for Darktrace far enough ahead for
\* the pruning pass to reach the entries of the first cycle).
TimeAt(ad, i) ==
    IF ad = "abnormal" THEN (i - 1) * queryInterval
                       ELSE CASE i = 1 -> StartTime
                              [] i = 2 -> StartTime + queryInterval
                              [] OTHER -> StartTime + 3 * queryInterval

Event(key, idk, id, tk, t) ==
    [src |-> key, idk |-> idk, id |-> id, tk |-> tk, time |-> t]

\* What the vendor has for the source it is busy on, one of:
\*   one identifier at the first watermark, after it and later still;
\*   two identifiers at different times;
\*   events without identifier, and one whose time does not parse.
Catalogues(ad, key) ==
    { { Event(key, "str", "a", "ok", TimeAt(ad, 1)),
        Event(key, "str", "a", "ok", TimeAt(ad, 2)),
        Event(key, "str", "a", "ok", TimeAt(ad, 3)) },
      { Event(key, "str", "a", "ok", TimeAt(ad, 2)),
        Event(key, "str", "b", "ok", TimeAt(ad, 3)) },
      { Event(key, "absent", "", "ok", TimeAt(ad, 3)),
        Event(key, "empty", "", "ok", TimeAt(ad, 3)),
        Event(key, "str", "a", "bad", 0) } }

\* What the vendor has for a source it is quiet on
QuietCatalogue(ad, key) == { Event(key, "str", "a", "ok", TimeAt(ad, 2)) }

PageLen(ad) == IF ad = "abnormal" THEN AbnormalPageLen ELSE DarktracePageLen

\* the lists a 200 body can carry
Pages(ad, events) ==
    UNION { [1..n -> events] : n \in 0..PageLen(ad) }

-----------------------------------------------------------------------------
(* The per-event filter of getEvents.  st is what the loop over one page   *)
(* carries: the source's dedupe map, the items admitted so far, the        *)
(* running lastDetectionTime, the admission counts, and what became of the *)
(* events that were not admitted: skipped for their identifier (skipped),  *)
(* suppressed as already in the dedupe map (dup), not after since (late).  *)

\* fmt.Sprintf("%d", fnvHasher.Sum64()) of json.Marshal(event): json.Marshal
\* writes a map's keys in sorted order, so the digest is a function of the
\* event's content alone.  The model keeps the content itself as the digest.
ContentHash(e) == "fnv64a(" \o e.idk \o "," \o e.tk \o "," \o ToString(e.time) \o ")"

\* time.Time.Unix() of a parsed occurrence-time (whole seconds)
Unix(t) == t

\* the event is logged and skipped: its identifier is not a string
SkipId(st, e) == [st EXCEPT !.skipped = @ \cup {e}]
\* the event is logged and skipped: its time is no string or does not parse
SkipTime(st, e) == st
\* the event's identifier is in the dedupe map
Suppress(st, e) == [st EXCEPT !.dup = TRUE]
\* the event is not after since
TooOld(st, e) == [st EXCEPT !.late = @ \cup {e}]

CountUp(lv, id) ==
    IF id \in DOMAIN lv THEN [lv EXCEPT ![id] = Min(@ + 1, 2)]
                        ELSE (id :> 1) @@ lv

Admit(st, e, id, stamp) ==
    [st EXCEPT !.dedupe = (id :> stamp) @@ @,
               !.items  = Append(@, e),
               !.last   = IF e.time > @ THEN e.time ELSE @,
               !.live   = CountUp(@, id)]

\* a comparison that lets an event at the watermark itself through
AfterOrEqual(t, snc) == t >= snc

\* a comparison that gives the watermark the grace period of the pruning pass
AfterWithGrace(t, snc) == t > snc - graceSeconds

\* parsedTime.After(since) / timeString.After(time.UnixMilli(since))
After(t, snc) == t > snc

\* a lookup that never finds an identifier
SeenNever(dd, id) == FALSE

\* _, seen := api.dedupe[id]
Seen(dd, id) == id \in DOMAIN dd

\* Abnormal: the identifier of an event
\*   ok = FALSE: logged and skipped
AbnormalEventId(e) ==
    IF e.idk # "empty"    \* event[api.idField] != ""
    THEN IF e.idk = "str" THEN [ok |-> TRUE, id |-> e.id]
                          ELSE [ok |-> FALSE, id |-> ""]
    ELSE [ok |-> TRUE, id |-> ContentHash(e)]

\* Abnormal: the body of the loop over response.GetDicts()
AbnormalFilterEvent(st, e, snc) ==
    LET r == AbnormalEventId(e) IN
    IF ~r.ok THEN SkipId(st, e)
    ELSE IF e.tk \notin {"ok", "bad"} THEN SkipTime(st, e)
    ELSE IF Seen(st.dedupe, r.id) THEN Suppress(st, e)
    ELSE IF e.tk = "bad" THEN SkipTime(st, e)
    ELSE IF After(e.time, snc) THEN Admit(st, e, r.id, Unix(e.time))
    ELSE TooOld(st, e)

\* Darktrace: the identifier of an event (a type assertion to string)
DarktraceEventId(e) ==
    IF e.idk = "str" THEN [ok |-> TRUE, id |-> e.id]
    ELSE IF e.idk = "empty" THEN [ok |-> TRUE, id |-> ""]
    ELSE [ok |-> FALSE, id |-> ""]

\* Darktrace: the body of the loop over response.GetDict()
DarktraceFilterEvent(st, e, snc, clock) ==
    LET r == DarktraceEventId(e) IN
    IF ~r.ok THEN SkipId(st, e)
    ELSE IF e.tk \notin {"ok", "bad"} THEN SkipTime(st, e)
    ELSE IF Seen(st.dedupe, r.id) THEN Suppress(st, e)
    ELSE IF e.tk = "bad" THEN SkipTime(st, e)
    ELSE IF After(e.time, snc) THEN Admit(st, e, r.id, clock)
    ELSE TooOld(st, e)

FilterEvent(ad, st, e, snc, clock) ==
    IF ad = "abnormal" THEN AbnormalFilterEvent(st, e, snc)
                       ELSE DarktraceFilterEvent(st, e, snc, clock)

EventId(ad, e) ==
    IF ad = "abnormal" THEN AbnormalEventId(e).id ELSE DarktraceEventId(e).id

RECURSIVE FilterPage(_, _, _, _, _, _)
FilterPage(ad, st, list, i, snc, clock) ==
    IF i > Len(list) THEN st
    ELSE FilterPage(ad, FilterEvent(ad, st, list[i], snc, clock), list, i + 1, snc, clock)

\* the deferred pruning pass of getEvents
AbnormalPruneKeeps(v, snc) == ~(v < Unix(snc))
DarktracePruneKeeps(v, snc) == ~(v < snc - graceSeconds)

PruneKeeps(ad, v, snc) ==
    IF ad = "abnormal" THEN AbnormalPruneKeeps(v, snc) ELSE DarktracePruneKeeps(v, snc)

Prune(ad, dd, snc) ==
    LET keep == { k \in DOMAIN dd : PruneKeeps(ad, dd[k], snc) }
    IN  [k \in keep |-> dd[k]]

\* the admission counts of the identifiers the pruning pass leaves in the cache
PruneCounts(lv, dd) == [k \in (DOMAIN lv) \cap (DOMAIN dd) |-> lv[k]]

-----------------------------------------------------------------------------
(* The vendor.  A reply is what one HTTP attempt comes back with: status   *)
(* (TransportError when there is no response), json (the body decodes),    *)
(* list (the list field of a 200 body) and next (nextPageNumber of the     *)
(* body; NoField when the body does not carry it).  Every 200 body the     *)
(* model's vendor sends carries its list field, so a decoded list never    *)
(* outlives its page; NextPageNumber is the part of the shared response    *)
(* object that does.                                                       *)

NoField == -1

\* The Retry-After header of a response: none, a number of seconds, an
\* HTTP-date (at, seconds on the model's clock), or text that is neither.
NoHeader == [kind |-> "absent", n |-> 0]
SecondsHeader(n) == [kind |-> "seconds", n |-> n]
DateHeader(at) == [kind |-> "date", n |-> at]
JunkHeader == [kind |-> "junk", n |-> 0]

\* the headers a throttling vendor sends when the clock shows clock
RetryAfterHeaders(clock) ==
    { NoHeader, SecondsHeader(0), SecondsHeader(RetryAfterSeconds),
      DateHeader(clock + RetryAfterDelta), JunkHeader }

Reply(status, json, list, next) ==
    [status |-> status, json |-> json, list |-> list, next |-> next, ra |-> NoHeader]

\* Darktrace bodies are bare arrays: there is no next-page indicator
NextChoices(ad, page) ==
    IF ad = "abnormal" THEN {NoField, 0, page + 1} ELSE {NoField}

GoodReplies(ad, events, page) ==
    { Reply(StatusOK, TRUE, l, n) : l \in Pages(ad, events), n \in NextChoices(ad, page) }

FailedReplies ==
    { Reply(TransportError, FALSE, << >>, NoField),
      Reply(StatusUnauthorized, FALSE, << >>, NoField),
      Reply(StatusServerError, FALSE, << >>, NoField),
      Reply(StatusOK, FALSE, << >>, NoField) }

ThrottledReply == Reply(StatusTooManyRequests, FALSE, << >>, NoField)

ThrottledReplies(clock) ==
    { [ThrottledReply EXCEPT !.ra = h] : h \in RetryAfterHeaders(clock) }

\* a 200 body that names no next page
LastPageReplies(ad, events) ==
    { Reply(StatusOK, TRUE, l, NoField) : l \in Pages(ad, events) }

\* a request made with a cancelled context fails in the transport
ListReplies(ad, events, page, cancelled, mode, clock) ==
    IF cancelled THEN { Reply(TransportError, FALSE, << >>, NoField) }
    ELSE IF mode = "stuck429" THEN ThrottledReplies(clock)
    ELSE IF mode = "healthy" THEN GoodReplies(ad, events, page)
    ELSE IF mode = "plain" THEN FailedReplies \cup LastPageReplies(ad, events)
    ELSE FailedReplies \cup ThrottledReplies(clock) \cup GoodReplies(ad, events, page)

\* the detail endpoint answers with one flat object
DetailReplies(cancelled, clock) ==
    IF cancelled THEN { Reply(TransportError, FALSE, << >>, NoField) }
    ELSE FailedReplies \cup ThrottledReplies(clock)
             \cup { Reply(StatusOK, TRUE, << >>, NoField) }

-----------------------------------------------------------------------------
(* doWithRetry: what one attempt's reply makes the executor do.            *)

\* an executor that also waits and asks again on a server error
AbnormalClassifyRetryServerError(r) ==
    IF r.status = TransportError THEN "transport"
    ELSE IF r.status \in {StatusTooManyRequests, StatusServerError} THEN "retry"
    ELSE IF r.status = StatusUnauthorized THEN "unauthorized"
    ELSE IF r.status # StatusOK THEN "non200"
    ELSE IF ~r.json THEN "json"
    ELSE "none"

\* an executor for which 429 is one more non-200 status
AbnormalClassifyNoRetry(r) ==
    IF r.status = TransportError THEN "transport"
    ELSE IF r.status = StatusUnauthorized THEN "unauthorized"
    ELSE IF r.status # StatusOK THEN "non200"
    ELSE IF ~r.json THEN "json"
    ELSE "none"

\* "retry": sleep and loop; "none": return the decoded response; anything
\* else: return that error
AbnormalClassify(r) ==
    IF r.status = TransportError THEN "transport"
    ELSE IF r.status = StatusTooManyRequests THEN "retry"
    ELSE IF r.status = StatusUnauthorized THEN "unauthorized"
    ELSE IF r.status # StatusOK THEN "non200"
    ELSE IF ~r.json THEN "json"
    ELSE "none"

DarktraceClassify(r) ==
    IF r.status = TransportError THEN "transport"
    ELSE IF r.status = StatusTooManyRequests THEN "retry"
    ELSE IF r.status # StatusOK THEN "non200"
    ELSE IF ~r.json THEN "json"
    ELSE "none"

Classify(ad, r) ==
    IF ad = "abnormal" THEN AbnormalClassify(r) ELSE DarktraceClassify(r)

\* json.Unmarshal(respBody, &responseType) into the source's one response
\* object: a field the body does not carry keeps the value it had
DecodeNextPage(old, r) == IF r.next = NoField THEN old ELSE r.next

\* response.HasNextPage(); Darktrace's walker asks for one page only
HasNextPage(ad, npn) == ad = "abnormal" /\ npn # 0

\* the Retry-After parse: retryAfterInt and retryAfterTime (isTime FALSE: the
\* zero time.Time)
ParseRetryAfter(h) ==
    IF h.kind = "seconds" THEN [int |-> h.n, isTime |-> FALSE, time |-> 0]
    ELSE IF h.kind = "date" THEN [int |-> 0, isTime |-> TRUE, time |-> h.n]
    ELSE [int |-> 0, isTime |-> FALSE, time |-> 0]

\* the seconds doWithRetry sleeps after a 429
AbnormalBackoff(h, clock) ==
    LET p == ParseRetryAfter(h) IN
    IF p.int # 0 THEN p.int
    ELSE IF p.isTime THEN p.time - clock
    ELSE defaultBackoff
DarktraceBackoff(h, clock) == defaultBackoff
Backoff(ad, h, clock) ==
    IF ad = "abnormal" THEN AbnormalBackoff(h, clock) ELSE DarktraceBackoff(h, clock)

\* A doWithRetry call: the requests it has made, and while it sleeps after a
\* 429 the status and Retry-After header it sleeps on and the seconds it asked
\* sleepContext for.
NoCall == [kind |-> "none", attempts |-> 0, status |-> 0, ra |-> NoHeader, sleep |-> 0]
NewCall(kind) == [NoCall EXCEPT !.kind = kind]
Attempt(c) == [c EXCEPT !.attempts = Min(@ + 1, MaxAttempts)]
\* a sleep that does not listen to the context
SleepContextDeaf(done) == "none"

\* what sleepContext returns: ctx.Err() when the context is done while the
\* timer is pending, nil when the timer fires
SleepContext(done) == IF done THEN "cancelled" ELSE "none"

\* sleepContext is entered
Sleep(ad, c, r, clock) ==
    [c EXCEPT !.status = r.status, !.ra = r.ra, !.sleep = Backoff(ad, r.ra, clock)]
\* sleepContext returned nil
Wake(c) == [c EXCEPT !.status = 0, !.ra = NoHeader, !.sleep = 0]

CallRecord(key, c, r, err) ==
    [key |-> key, kind |-> c.kind, status |-> r.status, json |-> r.json,
     attempts |-> c.attempts, err |-> err]

-----------------------------------------------------------------------------
(* getEvents and the part of fetchEvents' loop body that follows it.       *)

\* last, page, items: getEvents' lastDetectionTime, page, allItems.  The rest
\* is the record of the call: the identifiers cached when it began (pre), the
\* URLs it asked for (reqs), the first page whose body named no next page
\* (lastAt), whether a 429 was met (throttled), and the events not admitted.
NoWalk == [last |-> 0, page |-> 0, items |-> << >>, pre |-> {}, skipped |-> {},
           dup |-> FALSE, late |-> {}, reqs |-> << >>, lastAt |-> 0,
           throttled |-> FALSE]

\* lastDetectionTime := since; page := 1
NewWalk(snc, dd) == [NoWalk EXCEPT !.last = snc, !.page = 1, !.pre = DOMAIN dd]

\* the lower time bound and the page number a request's URL carries
AbnormalUrl(w) == [lower |-> w.last, page |-> w.page]
DarktraceUrl(snc) == [lower |-> snc, page |-> 0]
RequestUrl(ad, w, snc) == IF ad = "abnormal" THEN AbnormalUrl(w) ELSE DarktraceUrl(snc)

\* what getEvents returns
AbnormalReturn(w, err) ==
    IF err # "none" THEN [items |-> << >>, newSince |-> w.last, err |-> err]
                    ELSE [items |-> w.items, newSince |-> w.last, err |-> err]
DarktraceReturn(w, err) ==
    IF err # "none" THEN [items |-> << >>, newSince |-> 0, err |-> err]
                    ELSE [items |-> w.items, newSince |-> w.last, err |-> err]
WalkReturn(ad, w, err) ==
    IF ad = "abnormal" THEN AbnormalReturn(w, err) ELSE DarktraceReturn(w, err)

\* a loop body that stores whatever getEvents returned
StoreSinceAlways(s, key, ret) == [s EXCEPT ![key] = ret.newSince]

\* a loop body that keeps the progress of a walk that failed part-way
StoreSincePartial(s, key, ret) == [s EXCEPT ![key] = Max(@, ret.newSince)]

\* fetchEvents: if err != nil { continue }; since[api.key] = newSince
StoreSince(s, key, ret) ==
    IF ret.err # "none" THEN s ELSE [s EXCEPT ![key] = ret.newSince]

\* fetchEvents: allItems = append(allItems, items...), skipped on error
StoreItems(batch, ret) ==
    IF ret.err # "none" THEN batch ELSE batch \o ret.items

\* the events fetchEvents calls api.detailFn for
DetailQueue(key, ret) ==
    IF HasDetailFn(key) /\ ret.err = "none"
    THEN SelectSeq(ret.items, LAMBDA e : e.idk \in {"str", "empty"})
    ELSE << >>

\* the events a walk admitted are counted when the walk returns without error
RECURSIVE CountAdmissions(_, _, _)
CountAdmissions(adm, items, ret) ==
    IF ret.err # "none" \/ items = << >> THEN adm
    ELSE CountAdmissions(CountUp(adm, << EventId(adapter, Head(items)), Head(items).time >>),
                         Tail(items), ret)

\* the identifiers of a batch's events, per source
HandedIds(ad, batch, key) ==
    { EventId(ad, batch[i]) : i \in { j \in 1..Len(batch) :
                                        batch[j].src = key /\ batch[j].tk # "detail" } }

WalkRecord(key, snc, w, ret) ==
    [key |-> key, since |-> snc, admitted |-> w.items, items |-> ret.items,
     newSince |-> ret.newSince, err |-> ret.err, pre |-> w.pre, reqs |-> w.reqs,
     lastAt |-> w.lastAt, skipped |-> w.skipped, dup |-> w.dup, late |-> w.late,
     throttled |-> w.throttled]

-----------------------------------------------------------------------------
(* The initial state: the adapter as its constructor leaves it, the        *)
(* background task waiting in its select.                                  *)

NoLastWalk ==
    [key |-> "", since |-> 0, admitted |-> << >>, items |-> << >>, newSince |-> 0,
     err |-> "none", pre |-> {}, reqs |-> << >>, lastAt |-> 0, skipped |-> {},
     dup |-> FALSE, late |-> {}, throttled |-> FALSE]

NoLastCall ==
    [key |-> "", kind |-> "none", status |-> 0, json |-> FALSE, attempts |-> 0,
     err |-> "none"]

\* the callers of Close: the background task (submitEvents) and the callers
\* outside it
Self == "fetchEvents"

\* what uspClient.Drain and uspClient.Close return
Sinks == [drain : {"nil", "drainError"}, close : {"nil", "closeError"}]
QuietSink == [drain |-> "nil", close |-> "nil"]

\* a caller that is not in Close; var err1, err2 error
NoClose == [at |-> "idle", err1 |-> "nil", err2 |-> "nil"]

\* no Ship call
NoShip == [idx |-> 0, wait |-> 0, res |-> "none"]

InitBase ==
    /\ adapter \in Adapters
    /\ \E b \in Keys(adapter) :
         \E c \in Catalogues(adapter, b) :
           catalogue = [k \in Keys(adapter) |->
                          IF k = b THEN c ELSE QuietCatalogue(adapter, k)]
    /\ now = StartTime
    /\ cycles = 0
    /\ since = InitialSince(adapter, now)
    /\ dedupe = [k \in Keys(adapter) |-> << >>]
    /\ nextPageNumber = [k \in Keys(adapter) |-> 0]
    /\ pc = "select"
    /\ cur = 0
    /\ walk = NoWalk
    /\ call = NoCall
    /\ allItems = << >>
    /\ detailItems = << >>
    /\ idx = 0
    /\ ctxDone = FALSE
    /\ onceDone = FALSE
    /\ onceBy = ""
    /\ chStopped = FALSE
    /\ closeLog = << >>
    /\ exitLogged = FALSE
    /\ handed = [k \in Keys(adapter) |-> {}]
    /\ live = [k \in Keys(adapter) |-> << >>]
    /\ cycleRes = [k \in Keys(adapter) |-> "none"]
    /\ lastWalk = NoLastWalk
    /\ lastCall = NoLastCall
    /\ lastShip = NoShip
    /\ admissions = [k \in Keys(adapter) |-> << >>]

\* the vendor answers the list requests of the source it is busy on in every
\* way, and those of a quiet source with an error or a single page; one
\* caller outside the background task may call Close, and the sink drains and
\* closes without an error
Init ==
    /\ InitBase
    /\ ticks = MaxCycles
    /\ sink = QuietSink
    /\ closing = [c \in {Self, "caller1"} |-> NoClose]
    /\ vendor = [k \in Keys(adapter) |->
                   IF catalogue[k] = QuietCatalogue(adapter, k) THEN "plain" ELSE "any"]

\* one source answers 429 to every list request, the others answer every list
\* request with 200 and a body that decodes
InitThrottled ==
    /\ InitBase
    /\ ticks = MaxCycles
    /\ sink = QuietSink
    /\ closing = [c \in {Self, "caller1"} |-> NoClose]
    /\ \E t \in Keys(adapter) :
         vendor = [k \in Keys(adapter) |-> IF k = t THEN "stuck429" ELSE "healthy"]

\* the vendor has two well-formed events with different identifiers for the
\* source it is busy on
TwoIdentifiers ==
    \E k \in Keys(adapter) :
        /\ Cardinality({ e.id : e \in catalogue[k] }) = 2
        /\ \A e \in catalogue[k] : e.idk = "str" /\ e.tk = "ok"

\* a run long enough for a pruned identifier to come back (an entry can leave
\* the cache at the end of the second walk of its source at the earliest):
\* the vendor has two identifiers for the source it is busy on, answers every
\* list request of that source with 200 and a body that decodes, and those of
\* a quiet source in every way
InitPruning ==
    /\ InitBase
    /\ TwoIdentifiers
    /\ ticks = PruningCycles
    /\ sink = QuietSink
    /\ closing = [c \in {Self, "caller1"} |-> NoClose]
    /\ vendor = [k \in Keys(adapter) |->
                   IF catalogue[k] = QuietCatalogue(adapter, k) THEN "any" ELSE "healthy"]

\* one poll cycle that can reach submitEvents before anybody has called Close
\* (the vendor of InitPruning); one caller outside the background task may
\* call Close, and the sink drains and closes without an error
InitSelfClose ==
    /\ InitBase
    /\ TwoIdentifiers
    /\ ticks = ShutdownCycles
    /\ sink = QuietSink
    /\ closing = [c \in {Self, "caller1"} |-> NoClose]
    /\ vendor = [k \in Keys(adapter) |->
                   IF catalogue[k] = QuietCatalogue(adapter, k) THEN "any" ELSE "healthy"]

\* the same with two callers outside the background task and a sink that
\* answers Drain and Close in every way
InitShutdown ==
    /\ InitBase
    /\ TwoIdentifiers
    /\ ticks = ShutdownCycles
    /\ sink \in Sinks
    /\ closing = [c \in {Self, "caller1", "caller2"} |-> NoClose]
    /\ vendor = [k \in Keys(adapter) |->
                   IF catalogue[k] = QuietCatalogue(adapter, k) THEN "any" ELSE "healthy"]

-----------------------------------------------------------------------------
(* The background task.                                                    *)

Key == Apis(adapter)[cur]

\* a loop that a failed walk ends
LoopNextBreak(i, n, failed) == IF failed THEN 0 ELSE IF i < n THEN i + 1 ELSE 0

\* for _, api := range apis, and the continue after a failed walk: the index
\* of the source walked after the i-th of n, 0 when the loop is over
LoopNext(i, n, failed) == IF i < n THEN i + 1 ELSE 0

\* the for-range over apis moves on; after the last source the batch, when
\* it is not empty, goes to submitEvents
NextSource(batch, failed) ==
    IF LoopNext(cur, Len(Apis(adapter)), failed) # 0
    THEN /\ cur' = LoopNext(cur, Len(Apis(adapter)), failed)
         /\ pc' = "list"
         /\ walk' = NewWalk(since[Apis(adapter)[cur']], dedupe[Apis(adapter)[cur']])
         /\ call' = NewCall("list")
         /\ allItems' = batch
         /\ idx' = 0
         /\ handed' = handed
    ELSE /\ cur' = 0
         /\ walk' = NoWalk
         /\ call' = NoCall
         /\ IF Len(batch) > 0
            THEN /\ pc' = "ship"
                 /\ idx' = 1
                 /\ allItems' = batch
                 /\ handed' = [k \in Keys(adapter) |->
                                 handed[k] \cup HandedIds(adapter, batch, k)]
            ELSE /\ pc' = "select"
                 /\ idx' = 0
                 /\ allItems' = << >>
                 /\ handed' = handed

\* getEvents returns (its deferred pruning pass runs), and fetchEvents' loop
\* body takes the result
FinishWalk(key, w, dd, lv, err) ==
    LET snc    == since[key]
        ret    == WalkReturn(adapter, w, err)
        pruned == Prune(adapter, dd, snc)
        queue  == DetailQueue(key, ret)
        batch  == StoreItems(allItems, ret)
    IN  /\ dedupe' = [dedupe EXCEPT ![key] = pruned]
        /\ live' = [live EXCEPT ![key] = PruneCounts(lv, pruned)]
        /\ since' = StoreSince(since, key, ret)
        /\ admissions' = [admissions EXCEPT ![key] = CountAdmissions(@, w.items, ret)]
        /\ lastWalk' = WalkRecord(key, snc, w, ret)
        /\ cycleRes' = [cycleRes EXCEPT ![key] = IF err = "none" THEN "ok" ELSE "err"]
        /\ detailItems' = queue
        /\ IF Len(queue) > 0
           THEN /\ pc' = "detail"
                /\ call' = NewCall("detail")
                /\ walk' = NoWalk
                /\ allItems' = batch
                /\ UNCHANGED << cur, idx, handed >>
           ELSE NextSource(batch, err # "none")

\* case <-ticker.C: a poll cycle starts with the walk of the first source
Tick ==
    /\ pc = "select"
    /\ cycles < ticks
    /\ cycles' = cycles + 1
    /\ now' = now + queryInterval
    /\ allItems' = << >>
    /\ cur' = 1
    /\ pc' = "list"
    /\ walk' = NewWalk(since[Apis(adapter)[1]], dedupe[Apis(adapter)[1]])
    /\ call' = NewCall("list")
    /\ cycleRes' = [k \in Keys(adapter) |-> "none"]
    /\ lastWalk' = NoLastWalk
    /\ lastCall' = NoLastCall
    /\ lastShip' = NoShip
    /\ UNCHANGED << adapter, vendor, catalogue, ticks, since, admissions, dedupe,
                    nextPageNumber, detailItems, idx, ctxDone, onceDone, chStopped, onceBy,
                    sink, closing, closeLog, exitLogged, handed, live >>

\* case <-a.ctx.Done(): Darktrace's loop returns, Abnormal's only logs
CtxDoneCase ==
    /\ pc = "select"
    /\ ctxDone
    /\ exitLogged' = TRUE
    /\ pc' = IF adapter = "darktrace" THEN "exited" ELSE "select"
    /\ lastWalk' = NoLastWalk
    /\ lastCall' = NoLastCall
    /\ lastShip' = NoShip
    /\ UNCHANGED << adapter, vendor, catalogue, ticks, now, cycles, since, admissions,
                    dedupe, nextPageNumber, cur, walk, call, allItems, detailItems, idx,
                    ctxDone, onceDone, chStopped, onceBy, sink, closing, closeLog, handed,
                    live, cycleRes >>

\* one attempt of doWithRetry for a list page and, when the call returns, the
\* rest of getEvents' loop body
ListRespond ==
    /\ pc = "list"
    /\ \E r \in ListReplies(adapter, catalogue[Key], walk.page, ctxDone, vendor[Key], now) :
         LET key == Key
             err == Classify(adapter, r)
             c1  == Attempt(call)
             w0  == [walk EXCEPT !.reqs = IF call.attempts = 0
                                          THEN Append(@, RequestUrl(adapter, walk, since[key]))
                                          ELSE @]
         IN  IF err = "retry"
             THEN /\ pc' = "listSleep"
                  /\ call' = Sleep(adapter, c1, r, now)
                  /\ walk' = [w0 EXCEPT !.throttled = TRUE]
                  /\ lastWalk' = NoLastWalk
                  /\ lastCall' = NoLastCall
                  /\ UNCHANGED << since, admissions, dedupe, nextPageNumber, cur, allItems,
                                  detailItems, idx, handed, live, cycleRes >>
             ELSE IF err # "none"
             THEN /\ lastCall' = CallRecord(key, c1, r, err)
                  /\ nextPageNumber' = nextPageNumber
                  /\ FinishWalk(key, w0, dedupe[key], live[key], err)
             ELSE LET npn == DecodeNextPage(nextPageNumber[key], r)
                      st  == FilterPage(adapter,
                                        [dedupe |-> dedupe[key], items |-> w0.items,
                                         last |-> w0.last, skipped |-> w0.skipped,
                                         dup |-> w0.dup, late |-> w0.late,
                                         live |-> live[key]],
                                        r.list, 1, since[key], now)
                      w1  == [w0 EXCEPT !.items = st.items, !.last = st.last,
                                        !.skipped = st.skipped, !.dup = st.dup,
                                        !.late = st.late,
                                        !.lastAt = IF @ = 0 /\ r.next \in {NoField, 0}
                                                   THEN w0.page ELSE @]
                  IN  /\ lastCall' = CallRecord(key, c1, r, err)
                      /\ nextPageNumber' = [nextPageNumber EXCEPT ![key] = npn]
                      /\ IF HasNextPage(adapter, npn)
                         THEN /\ walk.page < MaxPage
                              /\ walk' = [w1 EXCEPT !.page = @ + 1]
                              /\ call' = NewCall("list")
                              /\ pc' = "list"
                              /\ dedupe' = [dedupe EXCEPT ![key] = st.dedupe]
                              /\ live' = [live EXCEPT ![key] = st.live]
                              /\ lastWalk' = NoLastWalk
                              /\ UNCHANGED << since, admissions, cur, allItems, detailItems,
                                              idx, handed, cycleRes >>
                         ELSE FinishWalk(key, w1, st.dedupe, st.live, "none")
    /\ UNCHANGED << adapter, vendor, catalogue, ticks, now, cycles, ctxDone, onceDone,
                    chStopped, onceBy, sink, closing, closeLog, lastShip, exitLogged >>

\* sleepContext: the timer fires, doWithRetry loops and asks again
ListSleepWake ==
    /\ pc = "listSleep"
    /\ SleepContext(ctxDone) = "none"
    /\ pc' = "list"
    /\ call' = Wake(call)
    /\ lastWalk' = NoLastWalk
    /\ lastCall' = NoLastCall
    /\ UNCHANGED << adapter, vendor, catalogue, ticks, now, cycles, since, admissions,
                    dedupe, nextPageNumber, cur, walk, allItems, detailItems, idx, ctxDone,
                    onceDone, chStopped, onceBy, sink, closing, closeLog, lastShip,
                    exitLogged, handed, live, cycleRes >>

\* sleepContext: the context is done, doWithRetry returns ctx.Err()
ListSleepCancelled ==
    /\ pc = "listSleep"
    /\ SleepContext(ctxDone) = "cancelled"
    /\ lastCall' = CallRecord(Key, call, ThrottledReply, "cancelled")
    /\ nextPageNumber' = nextPageNumber
    /\ FinishWalk(Key, walk, dedupe[Key], live[Key], "cancelled")
    /\ UNCHANGED << adapter, vendor, catalogue, ticks, now, cycles, ctxDone, onceDone,
                    chStopped, onceBy, sink, closing, closeLog, lastShip, exitLogged >>

\* the detail fetch of one admitted event is over (err = "none": its object is
\* appended to the batch); the loop over items moves on
FinishDetail(key, e, err) ==
    LET batch == IF err = "none"
                 THEN Append(allItems, Event(key, e.idk, e.id, "detail", 0))
                 ELSE allItems
        rest  == Tail(detailItems)
    IN  /\ detailItems' = rest
        /\ IF Len(rest) > 0
           THEN /\ pc' = "detail"
                /\ call' = NewCall("detail")
                /\ allItems' = batch
                /\ UNCHANGED << cur, walk, idx, handed >>
           ELSE NextSource(batch, FALSE)
        /\ lastWalk' = NoLastWalk
        /\ UNCHANGED << since, admissions, dedupe, nextPageNumber, live, cycleRes >>

\* one attempt of doWithRetry inside api.detailFn
DetailRespond ==
    /\ pc = "detail"
    /\ \E r \in DetailReplies(ctxDone, now) :
         LET err == Classify(adapter, r)
             c1  == Attempt(call)
         IN  IF err = "retry"
             THEN /\ pc' = "detailSleep"
                  /\ call' = Sleep(adapter, c1, r, now)
                  /\ lastWalk' = NoLastWalk
                  /\ lastCall' = NoLastCall
                  /\ UNCHANGED << since, admissions, dedupe, nextPageNumber, cur, walk,
                                  allItems, detailItems, idx, handed, live, cycleRes >>
             ELSE /\ lastCall' = CallRecord(Key, c1, r, err)
                  /\ FinishDetail(Key, Head(detailItems), err)
    /\ UNCHANGED << adapter, vendor, catalogue, ticks, now, cycles, ctxDone, onceDone,
                    chStopped, onceBy, sink, closing, closeLog, lastShip, exitLogged >>

DetailSleepWake ==
    /\ pc = "detailSleep"
    /\ SleepContext(ctxDone) = "none"
    /\ pc' = "detail"
    /\ call' = Wake(call)
    /\ lastWalk' = NoLastWalk
    /\ lastCall' = NoLastCall
    /\ UNCHANGED << adapter, vendor, catalogue, ticks, now, cycles, since, admissions,
                    dedupe, nextPageNumber, cur, walk, allItems, detailItems, idx, ctxDone,
                    onceDone, chStopped, onceBy, sink, closing, closeLog, lastShip,
                    exitLogged, handed, live, cycleRes >>

DetailSleepCancelled ==
    /\ pc = "detailSleep"
    /\ SleepContext(ctxDone) = "cancelled"
    /\ lastCall' = CallRecord(Key, call, ThrottledReply, "cancelled")
    /\ FinishDetail(Key, Head(detailItems), "cancelled")
    /\ UNCHANGED << adapter, vendor, catalogue, ticks, now, cycles, ctxDone, onceDone,
                    chStopped, onceBy, sink, closing, closeLog, lastShip, exitLogged >>

\* what uspClient.Ship answers
ShipResults == {"ok", "bufferFull", "fatal"}

\* the Ship call just made on event i with a wait of w seconds
ShipCall(i, w, res) == [idx |-> i, wait |-> w, res |-> res]

\* a resubmission that is never taken to have failed
RetryFailedNever(res) == FALSE

\* if err := a.uspClient.Ship(msg, 1*time.Hour); err != nil
RetryFailed(res) == res # "ok"

\* submitEvents' for-range moves to the next event, or returns after the last
NextEvent ==
    IF idx < Len(allItems)
    THEN /\ pc' = "ship"
         /\ idx' = idx + 1
         /\ UNCHANGED allItems
    ELSE /\ pc' = "select"
         /\ idx' = 0
         /\ allItems' = << >>

\* submitEvents: Ship(msg, 10s) of the event the loop is at.  ErrorBufferFull
\* leads to the resubmission, every other answer to the next event.
Ship ==
    /\ pc = "ship"
    /\ \E res \in ShipResults :
         /\ lastShip' = ShipCall(idx, shipTimeout, res)
         /\ IF res = "bufferFull"
            THEN /\ pc' = "shipRetry"
                 /\ UNCHANGED << idx, allItems >>
            ELSE NextEvent
    /\ lastWalk' = NoLastWalk
    /\ lastCall' = NoLastCall
    /\ UNCHANGED << adapter, vendor, catalogue, ticks, now, cycles, since, admissions,
                    dedupe, nextPageNumber, cur, walk, call, detailItems, ctxDone, onceDone,
                    chStopped, onceBy, sink, closing, closeLog, exitLogged, handed, live,
                    cycleRes >>

\* submitEvents: Ship(msg, 1h) of the same event.  An error leads to
\* a.Close() and the return, success to the next event.
ShipRetry ==
    /\ pc = "shipRetry"
    /\ \E res \in ShipResults :
         /\ lastShip' = ShipCall(idx, retryTimeout, res)
         /\ IF RetryFailed(res)
            THEN /\ pc' = "close"
                 /\ UNCHANGED << idx, allItems >>
            ELSE NextEvent
    /\ UNCHANGED << adapter, vendor, catalogue, ticks, now, cycles, since, admissions,
                    dedupe, nextPageNumber, cur, walk, call, detailItems, ctxDone, onceDone,
                    chStopped, onceBy, sink, closing, closeLog, exitLogged, handed, live,
                    cycleRes, lastWalk, lastCall >>

-----------------------------------------------------------------------------
(* Close.  A caller is the background task, inside submitEvents, or a      *)
(* goroutine outside the adapter.                                          *)

\* a sync.Once that only looks at its done flag
OnceAdmitsUnlocked(done, holder) == ~done

\* a.once.Do: the function runs for the caller that finds the Once not done
\* and its mutex free
OnceAdmits(done, holder) == ~done /\ holder = ""

\* a function that, once it has drained, calls a.once.Do again and so waits
\* for itself
CloseOrderReentrant(at) == IF at = "idle" THEN "drain" ELSE "wait"

\* a function that closes chStopped right after a.cancel()
CloseOrderSignalFirst(at) == IF at = "idle" THEN "stopped" ELSE "returned"

\* the statements of the function given to a.once.Do, in the order of the
\* code: where a caller that has run the statements of position at goes next
CloseOrder(at) ==
    CASE at = "idle"  -> "drain"
      [] at = "drain" -> "sink"
      [] at = "sink"  -> "stopped"
      [] OTHER        -> "returned"

\* if err1 != nil { return err1 }; return err2
CloseResult(cl) == IF cl.err1 # "nil" THEN cl.err1 ELSE cl.err2

\* caller c moves on in Close with locals cl.  When Close returns to the
\* background task, submitEvents returns too; a caller outside is done.
CloseStep(c, cl, returns) ==
    IF c = Self
    THEN /\ lastShip' = NoShip
         /\ IF returns
            THEN /\ closing' = [closing EXCEPT ![c] = NoClose]
                 /\ pc' = "select"
                 /\ idx' = 0
                 /\ allItems' = << >>
            ELSE /\ closing' = [closing EXCEPT ![c] = cl]
                 /\ UNCHANGED << pc, idx, allItems >>
    ELSE /\ closing' = [closing EXCEPT ![c] = cl]
         /\ UNCHANGED << pc, idx, allItems, lastShip >>

\* what no step of Close touches
CloseFrame ==
    UNCHANGED << adapter, vendor, catalogue, ticks, now, cycles, since, admissions, dedupe,
                 nextPageNumber, cur, walk, call, detailItems, exitLogged, handed, live,
                 cycleRes, lastWalk, lastCall, sink >>

\* c calls Close and reaches a.once.Do: the Once is done and Do returns at
\* once, or c is the one to run the function, which starts with a.cancel(),
\* or another caller is running it and c blocks
CloseEnter(c) ==
    /\ closing[c].at = "idle"
    /\ c = Self => pc = "close"
    /\ IF onceDone
       THEN /\ CloseStep(c, [closing[c] EXCEPT !.at = "returned"], TRUE)
            /\ UNCHANGED << ctxDone, onceBy, closeLog >>
       ELSE IF OnceAdmits(onceDone, onceBy)
       THEN /\ CloseStep(c, [closing[c] EXCEPT !.at = CloseOrder("idle")], FALSE)
            /\ onceBy' = c
            /\ ctxDone' = TRUE
            /\ closeLog' = Append(closeLog, "cancel")
       ELSE /\ CloseStep(c, [closing[c] EXCEPT !.at = "wait"], FALSE)
            /\ UNCHANGED << ctxDone, onceBy, closeLog >>
    /\ UNCHANGED << onceDone, chStopped >>
    /\ CloseFrame

\* err1 = a.uspClient.Drain(1 * time.Minute)
CloseDrain(c) ==
    /\ closing[c].at = "drain"
    /\ CloseStep(c, [closing[c] EXCEPT !.at = CloseOrder("drain"), !.err1 = sink.drain],
                 FALSE)
    /\ closeLog' = Append(closeLog, "drain")
    /\ UNCHANGED << ctxDone, onceDone, onceBy, chStopped >>
    /\ CloseFrame

\* _, err2 = a.uspClient.Close(); a.httpClient.CloseIdleConnections()
CloseSink(c) ==
    /\ closing[c].at = "sink"
    /\ CloseStep(c, [closing[c] EXCEPT !.at = CloseOrder("sink"), !.err2 = sink.close],
                 FALSE)
    /\ closeLog' = closeLog \o << "sinkClose", "idleConns" >>
    /\ UNCHANGED << ctxDone, onceDone, onceBy, chStopped >>
    /\ CloseFrame

\* close(a.chStopped); the function is over, the Once is done and Close
\* returns err1 or err2
CloseStopped(c) ==
    /\ closing[c].at = "stopped"
    /\ CloseStep(c, [closing[c] EXCEPT !.at = "returned"], TRUE)
    /\ chStopped' = TRUE
    /\ closeLog' = Append(closeLog, "chStopped")
    /\ onceDone' = TRUE
    /\ onceBy' = ""
    /\ UNCHANGED ctxDone
    /\ CloseFrame

\* a caller blocked in a.once.Do gets the mutex when the function is over,
\* finds the Once done and returns
CloseWake(c) ==
    /\ closing[c].at = "wait"
    /\ onceBy = ""
    /\ onceDone
    /\ CloseStep(c, [closing[c] EXCEPT !.at = "returned"], TRUE)
    /\ UNCHANGED << ctxDone, onceDone, onceBy, chStopped, closeLog >>
    /\ CloseFrame

Callers == DOMAIN closing

Close ==
    \/ \E c \in Callers : CloseEnter(c)
    \/ \E c \in Callers : CloseDrain(c)
    \/ \E c \in Callers : CloseSink(c)
    \/ \E c \in Callers : CloseStopped(c)
    \/ \E c \in Callers : CloseWake(c)

Background ==
    \/ Tick
    \/ CtxDoneCase
    \/ ListRespond
    \/ ListSleepWake
    \/ ListSleepCancelled
    \/ DetailRespond
    \/ DetailSleepWake
    \/ DetailSleepCancelled
    \/ Ship
    \/ ShipRetry

Next == Background \/ Close

Spec == Init /\ [][Next]_vars

\* The background goroutine keeps running, the ticker keeps ticking and every
\* HTTP attempt and timer comes back: each step of the task is taken once it
\* stays possible.
Fairness ==
    /\ WF_vars(Tick)
    /\ WF_vars(ListRespond)
    /\ WF_vars(ListSleepWake)
    /\ WF_vars(ListSleepCancelled)
    /\ WF_vars(DetailRespond)
    /\ WF_vars(DetailSleepWake)
    /\ WF_vars(DetailSleepCancelled)
    /\ WF_vars(Ship)
    /\ WF_vars(ShipRetry)
    /\ WF_vars(CtxDoneCase)
    /\ WF_vars(CloseEnter(Self))
    /\ WF_vars(\E c \in Callers : CloseDrain(c))
    /\ WF_vars(\E c \in Callers : CloseSink(c))
    /\ WF_vars(\E c \in Callers : CloseStopped(c))
    /\ WF_vars(\E c \in Callers : CloseWake(c))

FairSpec == InitThrottled /\ [][Next]_vars /\ Fairness

\* Close under every answer of the sink and with two outside callers
ShutdownSpec == InitShutdown /\ [][Next]_vars

\* Close with one outside caller, under Fairness: a caller that is inside
\* Close keeps running
SelfCloseSpec == InitSelfClose /\ [][Next]_vars /\ Fairness

\* Three poll cycles, the busy source healthy
PruningSpec == InitPruning /\ [][Next]_vars

-----------------------------------------------------------------------------
(* Properties.                                                             *)

Range(f) == { f[i] : i \in DOMAIN f }

IsPrefix(a, b) == Len(a) <= Len(b) /\ \A i \in 1..Len(a) : a[i] = b[i]

\* getEvents has just returned to fetchEvents
WalkReturned == lastWalk.key # ""

\* doWithRetry has just returned
CallReturned == lastCall.kind # "none"

AdmittedIds == { EventId(adapter, e) : e \in Range(lastWalk.admitted) }

AdmittedTimes == { e.time : e \in Range(lastWalk.admitted) }

\* C1: in the Abnormal adapter a walk that fails part-way loses no data:
\* whenever the background task is back in its select, no identifier sits in
\* a source's dedupe cache unless its event was handed to submitEvents.
C1_FailedWalkLosesNothing ==
    (adapter = "abnormal" /\ pc = "select") =>
        \A k \in Keys(adapter) : DOMAIN dedupe[k] \subseteq handed[k]

\* C2: in both adapters the stored watermark since[key] of every source never
\* decreases, whatever step the adapter takes (walks that succeed, walks that
\* fail, shipping, Close).
C2_WatermarkNeverDecreases ==
    [][\A k \in Keys(adapter) : since'[k] >= since[k]]_vars

\* C2 witness: a Darktrace walk has failed (getEvents returned 0 for newSince)
\* after an earlier cycle had advanced that source's watermark.
C2_Witness ==
    /\ adapter = "darktrace"
    /\ WalkReturned
    /\ lastWalk.err # "none"
    /\ lastWalk.newSince = 0
    /\ lastWalk.since > InitialSince(adapter, StartTime)[lastWalk.key]

\* C3: an identifier is never admitted again while it is in its source's
\* dedupe cache, in the same walk or a later one: between two prunings of an
\* identifier at most one event is admitted under it.
C3_NoReadmissionWhileCached ==
    \A k \in Keys(adapter) : \A id \in DOMAIN live[k] : live[k][id] <= 1

\* C3 witness: in a later cycle a walk met an event whose identifier was in the
\* cache since an earlier cycle, and suppressed it.
C3_Witness ==
    /\ WalkReturned
    /\ cycles = 2
    /\ lastWalk.dup
    /\ lastWalk.pre # {}
    /\ lastWalk.err = "none"

\* C4: an event whose time is at or before the watermark its walk was given is
\* never admitted whatever its identifier: every admitted event is strictly
\* after the watermark, an event rejected for its time adds nothing to the
\* dedupe cache, and the watermark stored after the walk is the old one or the
\* time of an admitted event.
C4_OnlyStrictlyAfterWatermark ==
    WalkReturned =>
        /\ \A e \in Range(lastWalk.admitted) : e.time > lastWalk.since
        /\ DOMAIN dedupe[lastWalk.key] \subseteq lastWalk.pre \cup AdmittedIds
        /\ since[lastWalk.key] \in {lastWalk.since} \cup AdmittedTimes

\* C4 witness: a walk was offered an uncached event whose time equals its
\* watermark, rejected it, and admitted another event.
C4_Witness ==
    /\ WalkReturned
    /\ \E e \in lastWalk.late : e.time = lastWalk.since
    /\ lastWalk.admitted # << >>
    /\ lastWalk.err = "none"

\* C5: when a source's walk returns an error, the watermark stored for that
\* source after the cycle's step is the value the walk was given: a failed
\* walk advances nothing, not even past the pages it got through.  And the
\* first request of every walk asks from the stored watermark, so the cycle
\* after a failed walk asks for the same window.
C5_FailedWalkKeepsWatermark ==
    /\ (WalkReturned /\ lastWalk.err # "none") =>
           since[lastWalk.key] = lastWalk.since
    /\ (pc \in {"list", "listSleep"} /\ walk.reqs # << >>) =>
           walk.reqs[1].lower = since[Key]

\* C5 witness: an Abnormal walk admitted events from its first page, moved its
\* lastDetectionTime past the watermark, and failed on a later page.
C5_Witness ==
    /\ adapter = "abnormal"
    /\ WalkReturned
    /\ lastWalk.err # "none"
    /\ lastWalk.admitted # << >>
    /\ lastWalk.newSince > lastWalk.since
    /\ Len(lastWalk.reqs) >= 2

\* every cycle that is over walked every source
CycleWalksEverySource ==
    pc \in {"ship", "select", "exited"} =>
        \/ \A k \in Keys(adapter) : cycleRes[k] = "none"
        \/ \A k \in Keys(adapter) : cycleRes[k] # "none"

\* a walk that succeeded has its watermark stored and its events in the batch
OkWalkIsStoredAndBatched ==
    (WalkReturned /\ lastWalk.err = "none") =>
        /\ since[lastWalk.key] = lastWalk.newSince
        /\ Range(lastWalk.items) \subseteq Range(allItems)

\* while the cycle's walks and detail fetches go on, and when the batch goes
\* to submitEvents, the batch only grows
BatchKeptUntilSubmit ==
    (/\ pc \in {"list", "listSleep", "detail", "detailSleep"}
     /\ pc' \in {"list", "listSleep", "detail", "detailSleep", "ship"})
        => IsPrefix(allItems, allItems')

\* C6: an error in one source's walk stays with that source: the cycle still
\* walks every other source, a walk that succeeds in the same cycle has its
\* watermark stored and its events appended to the batch, and the batch
\* reaches submitEvents with everything appended to it.
C6_WalkErrorsStayLocal ==
    /\ []CycleWalksEverySource
    /\ []OkWalkIsStoredAndBatched
    /\ [][BatchKeptUntilSubmit]_vars

\* C6 witness: the first source's walk failed, the second source's walk then
\* succeeded with events, advanced its watermark, and the batch with those
\* events is at submitEvents.
C6_Witness ==
    /\ WalkReturned
    /\ lastWalk.key = Apis(adapter)[2]
    /\ cycleRes[Apis(adapter)[1]] = "err"
    /\ lastWalk.err = "none"
    /\ lastWalk.items # << >>
    /\ since[lastWalk.key] > lastWalk.since
    /\ pc = "ship"

\* C7: a source that answers 429 to every request does not hold up a healthy
\* source for ever: unless the adapter is closed, every healthy source gets a
\* walk that succeeds.
C7_ThrottledSourceBlocksNoOne ==
    \A k \in {"abuseCampaigns", "auditLogs", "aiAnalyst", "modelBreaches"} :
        (k \in DOMAIN vendor /\ vendor[k] = "healthy") =>
            <>(ctxDone \/ (k \in DOMAIN cycleRes /\ cycleRes[k] = "ok"))

\* C8: an Abnormal auditLogs event (no identifier field) with a parseable time
\* strictly after the watermark is admitted under its content hash: a walk
\* that succeeds never skips such an event for its identifier.
C8_AuditLogsAdmittedByContentHash ==
    (WalkReturned /\ lastWalk.key = "auditLogs" /\ lastWalk.err = "none") =>
        \A e \in lastWalk.skipped :
            ~(e.idk = "absent" /\ e.tk = "ok" /\ e.time > lastWalk.since)

\* C9: an Abnormal walk whose requests are all answered 200 and whose page N
\* is the first to name no next page makes exactly N list requests, for pages
\* 1..N in order, and returns the events admitted from those pages.
C9_WalkStopsAtLastPage ==
    (/\ adapter = "abnormal"
     /\ WalkReturned
     /\ lastWalk.err = "none"
     /\ ~lastWalk.throttled) =>
        /\ lastWalk.lastAt # 0
        /\ [i \in 1..Len(lastWalk.reqs) |-> lastWalk.reqs[i].page]
               = [i \in 1..lastWalk.lastAt |-> i]
        /\ lastWalk.items = lastWalk.admitted

\* C10: a 429 makes the executor ask again, any number of times: a call never
\* returns an error on a 429 unless the context is done, and a 200 that decodes
\* returns success however many 429s came before it.
C10_ThrottleIsRetried ==
    CallReturned =>
        /\ lastCall.status = StatusTooManyRequests =>
               (lastCall.err = "cancelled" /\ ctxDone)
        /\ (lastCall.status = StatusOK /\ lastCall.json) => lastCall.err = "none"

\* C10 witness: a call met 429, slept, asked again, got 200 and returned
\* success.
C10_Witness ==
    /\ CallReturned
    /\ lastCall.attempts >= 2
    /\ lastCall.status = StatusOK
    /\ lastCall.err = "none"

\* C11: in the Abnormal adapter a 429 with a Retry-After header is slept on for
\* what the header asks: N seconds for an integer N, 0 included, or the time
\* left until its HTTP-date; the 60-second default is slept only when the
\* response carries no Retry-After header.
C11_RetryAfterIsHonoured ==
    (adapter = "abnormal" /\ pc \in {"listSleep", "detailSleep"}) =>
        /\ call.ra.kind = "seconds" => call.sleep = call.ra.n
        /\ call.ra.kind = "date" => call.sleep = call.ra.n - now
        /\ call.ra.kind = "absent" => call.sleep = defaultBackoff

\* C12: in both executors only a 429 is slept on and asked again: a 401 and
\* every other status that is neither 200 nor 429 makes the call return an
\* error on that response, and the call that returned makes no more requests.
C12_OnlyThrottleIsRetried ==
    /\ pc \in {"listSleep", "detailSleep"} => call.status = StatusTooManyRequests
    /\ CallReturned =>
        /\ call.attempts = 0
        /\ lastCall.status \notin {StatusOK, StatusTooManyRequests, TransportError}
               => lastCall.err \in {"unauthorized", "non200"}

\* C12 witness: the first response of a call was 401 and the call returned its
\* error after that one request.
C12_Witness ==
    /\ CallReturned
    /\ lastCall.status = StatusUnauthorized
    /\ lastCall.attempts = 1
    /\ lastCall.err # "none"

C16_NoCycleAfterCancelObserved ==
    [][exitLogged => ~(pc = "select" /\ pc' = "list")]_vars

\* C19: every source's watermark starts at the adapter's start time, so no
\* walk ever admits an event whose time is at or before the start time.
C19_NoBacklogAdmitted ==
    WalkReturned => \A e \in Range(lastWalk.admitted) : e.time > StartTime

\* C20: after every walk the source's dedupe cache holds no entry whose
\* admission timestamp is older than the watermark as that walk advanced it,
\* less one minute.
C20_PrunedAgainstAdvancedWatermark ==
    WalkReturned =>
        \A id \in DOMAIN dedupe[lastWalk.key] :
            dedupe[lastWalk.key][id] >= since[lastWalk.key] - graceSeconds

Count(s, x) == Cardinality({ i \in DOMAIN s : s[i] = x })

\* caller c's Close call returns in this step
CloseReturns(c) ==
    IF c = Self THEN pc = "close" /\ pc' # "close"
                ELSE closing[c].at # "returned" /\ closing'[c].at = "returned"

\* C14: however many callers call Close, one after the other, at the same
\* time, or the background task itself after a failed delivery, the shutdown
\* sequence runs once, chStopped is closed once, and it is closed whenever a
\* Close call returns.
C14_ShutdownRunsOnce ==
    [][/\ Count(closeLog', "cancel") <= 1
       /\ Count(closeLog', "drain") <= 1
       /\ Count(closeLog', "sinkClose") <= 1
       /\ Count(closeLog', "chStopped") <= 1
       /\ chStopped => chStopped'
       /\ \A c \in Callers :
            CloseReturns(c) => chStopped' /\ Count(closeLog', "chStopped") = 1]_vars

\* both outside callers have returned from Close, the background task called
\* Close after a failed delivery while the function was running and is still
\* blocked in a.once.Do
C14_Witness ==
    /\ closing["caller1"].at = "returned"
    /\ closing["caller2"].at = "returned"
    /\ closing[Self].at = "wait"
    /\ chStopped
    /\ Count(closeLog, "cancel") = 1

\* the first error of the shutdown: Drain's, else the sink's Close's
FirstShutdownError == IF sink.drain # "nil" THEN sink.drain ELSE sink.close

\* C15: every Close call of an outside caller, the first or a repeated one,
\* returns the first error of the shutdown sequence.
C15_CloseReturnsFirstError ==
    \A c \in Callers \ {Self} :
        closing[c].at = "returned" => CloseResult(closing[c]) = FirstShutdownError

\* the background task makes a Ship call in this step
ShipStep == pc \in {"ship", "shipRetry"} /\ << pc, idx >>' # << pc, idx >>

\* submitEvents goes on with the event after the one it is at
GoesToNextEvent ==
    IF idx < Len(allItems) THEN pc' = "ship" /\ idx' = idx + 1 /\ allItems' = allItems
                           ELSE pc' = "select"

\* C17: submitEvents ships the events in batch order with a 10 s wait; on
\* ErrorBufferFull it ships the same event once more with a 1 h wait; when
\* that succeeds it goes on with the next event, when it fails it calls Close
\* and ships none of the remaining events.
C17_ShipOrderAndRetry ==
    [][/\ (pc \notin {"ship", "shipRetry"} /\ pc' = "ship") => idx' = 1
       /\ ShipStep =>
            /\ lastShip'.idx = idx
            /\ lastShip'.wait = IF pc = "ship" THEN shipTimeout ELSE retryTimeout
            /\ (pc = "ship" /\ lastShip'.res = "ok") => GoesToNextEvent
            /\ (pc = "ship" /\ lastShip'.res = "bufferFull") =>
                   pc' = "shipRetry" /\ idx' = idx /\ allItems' = allItems
            /\ (pc = "shipRetry" /\ lastShip'.res = "ok") => GoesToNextEvent
            /\ (pc = "shipRetry" /\ lastShip'.res # "ok") => pc' = "close"
       /\ (pc = "close" /\ pc' # "close") => pc' = "select" /\ allItems' = << >>]_vars

\* the resubmission of an event that is not the last of its batch has failed
C17_Witness ==
    /\ pc = "close"
    /\ lastShip.wait = retryTimeout
    /\ lastShip.res # "ok"
    /\ lastShip.idx < Len(allItems)

\* C18: a Ship call that fails with an error other than ErrorBufferFull makes
\* the adapter call Close.
C18_FatalShipErrorCloses ==
    [][(ShipStep /\ pc = "ship" /\ lastShip'.res = "fatal") => pc' = "close"]_vars

\* C21: an event that a walk which returned without error had admitted is
\* not admitted again by a later walk of its source, whether or not its
\* dedupe entry has been pruned in between.
C21_NoSecondAdmission ==
    \A k \in DOMAIN admissions :
        \A x \in DOMAIN admissions[k] : admissions[k][x] = 1

\* a walk has returned without error in which the vendor sent an event again
\* that an earlier walk had admitted and whose dedupe entry had been pruned
\* before the walk started; the walk turned it down as not after since
C21_Witness ==
    /\ WalkReturned
    /\ lastWalk.err = "none"
    /\ \E e \in lastWalk.late :
         /\ << EventId(adapter, e), e.time >> \in DOMAIN admissions[lastWalk.key]
         /\ EventId(adapter, e) \notin lastWalk.pre

\* C22: in the Abnormal adapter every page request of a walk carries the
\* watermark the walk was started with as its lower time bound.
C22_SameLowerBoundOnEveryPage ==
    (adapter = "abnormal" /\ WalkReturned) =>
        \A i \in DOMAIN lastWalk.reqs : lastWalk.reqs[i].lower = lastWalk.since

\* the statements of the shutdown, in the order the stopped signal is meant
\* to follow
ShutdownSequence == << "cancel", "drain", "sinkClose", "idleConns", "chStopped" >>

\* C23: the steps of the shutdown happen in the order cancel, drain, sink
\* close, idle connections, close of chStopped; the context is cancelled
\* before anything else, and chStopped is closed only when all the other
\* steps are done.
C23_ShutdownOrder ==
    /\ IsPrefix(closeLog, ShutdownSequence)
    /\ closeLog # << >> => ctxDone
    /\ chStopped => closeLog = ShutdownSequence

\* chStopped is closed after a shutdown whose Drain and sink Close both failed
C23_Witness ==
    /\ chStopped
    /\ closeLog = ShutdownSequence
    /\ sink.drain # "nil"
    /\ sink.close # "nil"

\* C24: in the Abnormal adapter a page whose own body names no next page is
\* the last page of its walk: the walk does not go on to request another
\* page on the strength of a value decoded from an earlier response.
C24_OwnBodyDecidesNextPage ==
    (adapter = "abnormal" /\ pc \in {"list", "listSleep"} /\ walk.lastAt # 0) =>
        walk.page = walk.lastAt

\* C25: the Close that the background task calls from submitEvents returns,
\* with chStopped closed; a Close that an outside caller has begun returns as
\* well, whichever of the two runs the shutdown; and the shutdown has run
\* once when chStopped is closed.
C25_SelfCloseCompletes ==
    /\ (pc = "close") ~> (pc # "close" /\ chStopped)
    /\ (closing["caller1"].at \notin {"idle", "returned"})
           ~> (closing["caller1"].at = "returned")
    /\ [](chStopped => Count(closeLog, "cancel") = 1)

\* the background task is running the shutdown it called for itself while
\* the outside caller is blocked in a.once.Do
C25_Witness ==
    /\ pc = "close"
    /\ onceBy = Self
    /\ closing[Self].at \in {"drain", "sink", "stopped"}
    /\ closing["caller1"].at = "wait"

====
